---- MODULE Spec2Model ----
(***************************************************************************)
(* Model of the scan orchestration and result normalisation of Sacch.ai:   *)
(* services/virusTotalService.ts (the direct client), its proxy revision   *)
(* (unnamed/part_001) and services/geminiService.ts.                       *)
(*                                                                         *)
(* One orchestration runs at a time (two in SpecRace, where two callers    *)
(* scan the same resource).  Every await of the code is a                  *)
(* suspension point: the code between two awaits is one action.  The       *)
(* reputation store, the reasoning service and the clock are the           *)
(* environment: an answer's status, body and latency are chosen freely.    *)
(***************************************************************************)
EXTENDS Integers, Sequences, FiniteSets, TLC

VARIABLES
    ver,        \* which revision of virusTotalService is linked: "direct" | "proxy"
    apiKey,     \* process.env.VIRUSTOTAL_API_KEY is set
    op,         \* the exported operation that was called
    target,     \* its argument: a URL, a file or a text
    pc,         \* the await the operation is suspended at
    elapsed,    \* Date.now() - startTime inside waitForAnalysis
    waitResult, \* how waitForAnalysis ended: "none" | "running" | "report" | "null" | "timeout"
    outcome,    \* what the operation handed to its caller
    existingReport, \* what the initial lookup of a scan returned: "unset" | "report" | "null"
    requests,   \* the requests sent so far (endpoint, payload kind, about)
    nSubmit,    \* number of submission requests sent (POST /files, POST /urls)
    lastPoll,   \* how the latest poll iteration ended
    retriedAfter, \* the kinds of iteration ending after which another poll was sent
    vtReport,   \* what checkVirusTotal returned: "unset" | "found" | "notfound" | "null"
    reply,      \* response.text of the reasoning service ("-" before it answers)
    result,     \* the normalised result returned to the caller
    lookup,     \* the latest reputation lookup: who made it, the store's answer, what it reported
    submitStatus, \* the store's answer to the submission ("none" before it)
    nPoll,      \* poll requests sent by a waitForAnalysis called on its own (SpecWait)
    abandoned,  \* the caller of waitForAnalysis has stopped waiting for its promise
    parsed      \* what JSON.parse returned for the reply (JSON mode)

vars == <<ver, apiKey, abandoned, op, target, pc, elapsed, waitResult, outcome,
          existingReport, requests, nSubmit, lastPoll, retriedAfter,
          vtReport, reply, result, lookup, submitStatus, nPoll, parsed>>

analysisVars == <<vtReport, reply, result, parsed>>

----------------------------------------------------------------------------
(* Program constants and bounds *)

\* waitForAnalysis(scanId, maxWaitTime = 300000, pollInterval = 10000)
DefaultMaxWaitTime == 300000
DefaultPollInterval == 10000

\* A request takes 0 .. MaxLatencyUnits latency units; the unit is half a poll interval.
MaxLatencyUnits == 1
LatencyUnit == DefaultPollInterval \div 2
Latencies == {k * LatencyUnit : k \in 0..MaxLatencyUnits}
MaxLatency == MaxLatencyUnits * LatencyUnit

Versions == {"direct", "proxy"}

----------------------------------------------------------------------------
(* Strings as sequences of one-character strings (hostnames) *)

StartsWith(s, p) == Len(p) <= Len(s) /\ SubSeq(s, 1, Len(p)) = p
EndsWith(s, p) == Len(p) <= Len(s) /\ SubSeq(s, Len(s) - Len(p) + 1, Len(s)) = p
Includes(s, p) == \E i \in 1..(Len(s) - Len(p) + 1) : SubSeq(s, i, i + Len(p) - 1) = p

privateRanges ==
    { <<"1","2","7",".","0",".","0",".","1">>,
      <<"l","o","c","a","l","h","o","s","t">>,
      <<"0",".","0",".","0",".","0">>,
      <<"1","0",".">>,
      <<"1","9","2",".","1","6","8",".">>,
      <<"1","7","2",".","1","6",".">>, <<"1","7","2",".","1","7",".">>,
      <<"1","7","2",".","1","8",".">>, <<"1","7","2",".","1","9",".">>,
      <<"1","7","2",".","2","0",".">>, <<"1","7","2",".","2","1",".">>,
      <<"1","7","2",".","2","2",".">>, <<"1","7","2",".","2","3",".">>,
      <<"1","7","2",".","2","4",".">>, <<"1","7","2",".","2","5",".">>,
      <<"1","7","2",".","2","6",".">>, <<"1","7","2",".","2","7",".">>,
      <<"1","7","2",".","2","8",".">>, <<"1","7","2",".","2","9",".">>,
      <<"1","7","2",".","3","0",".">>, <<"1","7","2",".","3","1",".">>,
      <<"1","6","9",".","2","5","4",".">>,
      <<":",":","1">>, <<"f","c","0","0",":">>, <<"f","e","8","0",":">> }

virustotalDomain == <<"v","i","r","u","s","t","o","t","a","l",".","c","o","m">>

\* The list, in the order Array.find walks it: the name and its characters.
restrictedDomains ==
    << [name |-> "google.com", chars |-> <<"g","o","o","g","l","e",".","c","o","m">>],
       [name |-> "microsoft.com", chars |-> <<"m","i","c","r","o","s","o","f","t",".","c","o","m">>],
       [name |-> "apple.com", chars |-> <<"a","p","p","l","e",".","c","o","m">>],
       [name |-> "amazon.com", chars |-> <<"a","m","a","z","o","n",".","c","o","m">>],
       [name |-> "facebook.com", chars |-> <<"f","a","c","e","b","o","o","k",".","c","o","m">>],
       [name |-> "meta.com", chars |-> <<"m","e","t","a",".","c","o","m">>],
       [name |-> "twitter.com", chars |-> <<"t","w","i","t","t","e","r",".","c","o","m">>],
       [name |-> "x.com", chars |-> <<"x",".","c","o","m">>],
       [name |-> "linkedin.com", chars |-> <<"l","i","n","k","e","d","i","n",".","c","o","m">>],
       [name |-> "instagram.com", chars |-> <<"i","n","s","t","a","g","r","a","m",".","c","o","m">>],
       [name |-> "youtube.com", chars |-> <<"y","o","u","t","u","b","e",".","c","o","m">>] >>

\* restrictedDomains.find(d => hostname === d || hostname.endsWith('.' + d)):
\* the index of the first match, 0 when there is none.
MatchesDomain(hostname, d) == hostname = d.chars \/ EndsWith(hostname, <<".">> \o d.chars)
matchedDomain(hostname) ==
    IF \E i \in 1..Len(restrictedDomains) : MatchesDomain(hostname, restrictedDomains[i])
    THEN CHOOSE i \in 1..Len(restrictedDomains) :
            /\ MatchesDomain(hostname, restrictedDomains[i])
            /\ \A k \in 1..(i - 1) : ~MatchesDomain(hostname, restrictedDomains[k])
    ELSE 0

\* A URL argument: whether new URL(url) parses it, and the lower-cased hostname
\* the parser yields.
Url(parses, hostname) == [kind |-> "url", parses |-> parses, hostname |-> hostname]

Urls ==
    { Url(FALSE, <<>>),                                                   \* "not a url"
      Url(TRUE, <<"1","2","7",".","0",".","0",".","1">>),                 \* http://127.0.0.1/admin
      Url(TRUE, <<"1","0",".","0",".","0",".","5">>),                     \* http://10.0.0.5/
      Url(TRUE, <<"s","u","b",".">> \o virustotalDomain),                 \* https://sub.virustotal.com/x
      Url(TRUE, <<"w","w","w",".","g","o","o","g","l","e",".","c","o","m">>), \* https://www.google.com/
      Url(TRUE, <<"n","e","w","s",".","e","x","a","m","p","l","e",".","c","o","m">>) } \* https://news.example.com/story

\* Mutant: the catch block returns no reason.
InvalidFormat_NoReason == [valid |-> FALSE, reason |-> ""]

\* The catch block of validateUrlForScanning: new URL(url) threw.
InvalidFormat == [valid |-> FALSE, reason |-> "Invalid URL format"]

\* validateUrlForScanning: the reason is "" when the URL is valid.
validateUrlForScanning(url) ==
    IF ~url.parses
    THEN InvalidFormat
    ELSE IF \E range \in privateRanges : StartsWith(url.hostname, range)
    THEN [valid |-> FALSE, reason |-> "Private/internal IP addresses cannot be scanned"]
    ELSE IF Includes(url.hostname, virustotalDomain)
    THEN [valid |-> FALSE, reason |-> "VirusTotal URLs cannot be scanned"]
    ELSE IF matchedDomain(url.hostname) # 0
    THEN [valid |-> FALSE,
          reason |-> "Scanning " \o restrictedDomains[matchedDomain(url.hostname)].name
                     \o " URLs is restricted"]
    ELSE [valid |-> TRUE, reason |-> ""]

\* The denylist policy of the specification (section 4.5) is this function.
Denylisted(url) == ~validateUrlForScanning(url).valid

----------------------------------------------------------------------------
(* The reputation store's answers *)

\* What a fetch can come back with: response.ok, status 404, another
\* non-success status, or a rejected fetch (network error).
Statuses == {"ok", "notfound", "nonok", "neterr"}

\* data.data.attributes.stats of an analysis answer: absent, all counts zero,
\* or a positive count total.
StatsKinds == {"missing", "zero", "positive"}

\* The answers to GET /analyses/{id}: a body is read only from a success answer;
\* hasId: data.data.attributes.resource || data.data.id is truthy.
PollAnswers ==
    {[status |-> s, stats |-> "missing", hasId |-> FALSE] : s \in Statuses \ {"ok"}}
    \cup {[status |-> "ok", stats |-> st, hasId |-> h] : st \in StatsKinds, h \in BOOLEAN}

Files == {[kind |-> "file"]}

Pending == [kind |-> "pending", msg |-> "", fetchedAs |-> ""]
Report(type) == [kind |-> "report", msg |-> "", fetchedAs |-> type]
Failure(msg) == [kind |-> "error", msg |-> msg, fetchedAs |-> ""]

Req(ep, payload) == [ep |-> ep, payload |-> payload]

----------------------------------------------------------------------------
(* virusTotalService: the decisions of the code, as operators *)

\* The direct client reads the key first and throws without it; the proxy
\* revision holds no key.
KeyMissing == ver = "direct" /\ ~apiKey

\* Mutant: every non-success answer is taken for "not found".
getVirusTotalReport_ErrorsAsNotFound(status) ==
    IF status = "ok" THEN "report" ELSE "null"

\* getVirusTotalReport: a report on success, null on 404, a throw otherwise.
getVirusTotalReport(status) ==
    CASE status = "ok" -> "report"
      [] status = "notfound" -> "null"
      [] OTHER -> "throw"

\* uploadFileToVirusTotal / submitUrlToVirusTotal: if (!response.ok) throw.
SubmissionMessage ==
    IF op = "scanFile" THEN "Upload failed" ELSE "URL submission failed"

\* Mutant: response.ok is not looked at.
submitResult_IgnoresStatus(status) ==
    IF status = "neterr" THEN "throw network" ELSE "scanId"

submitResult(status) ==
    CASE status = "ok" -> "scanId"
      [] status = "neterr" -> "throw network"
      [] OTHER -> "throw status"

\* Mutant: the existing report is not returned.
ReturnsExisting_Never(existing) == FALSE

\* scanFileWithVirusTotal / scanUrlWithVirusTotal: if (existingReport) return existingReport.
ReturnsExisting(existing) == existing = "report"

\* waitForAnalysis: while (Date.now() - startTime < maxWaitTime)
maxWaitTime == DefaultMaxWaitTime
pollInterval == DefaultPollInterval
\* Mutant: the budget test is inclusive.
LoopCondition_Inclusive(e) == e <= maxWaitTime

LoopCondition(e) == e < maxWaitTime

\* Mutant: a complete analysis sleeps like an unfinished one.
PollStep_SleepsOnComplete(status, stats, hasId) ==
    IF status = "neterr" THEN "catch" ELSE "sleep"

\* waitForAnalysis, the body of the try block after the fetch resolved with
\* `status`: "fetchReport" (go on to getVirusTotalReport), "sleep" (fall through
\* to the setTimeout), or "catch" (an exception, which the catch block swallows).

PollStep(status, stats, hasId) ==
    CASE status = "neterr" -> "catch"
      [] status # "ok" -> "sleep"
      [] stats = "missing" -> IF ver = "direct" THEN "catch" ELSE "sleep"
      [] stats = "zero" -> "sleep"
      [] OTHER -> IF ver = "proxy" /\ ~hasId THEN "sleep" ELSE "fetchReport"

\* What the store answered to a poll, for the record of what was retried:
\* "positive" is a positive count total (in the proxy revision, with a resource
\* id to fetch the report by), "processing" a zero total.
PollEnding(status, stats, hasId) ==
    CASE status = "neterr" -> "error"
      [] status # "ok" -> "nonok"
      [] stats = "missing" -> "malformed"
      [] stats = "zero" -> "processing"
      [] OTHER -> IF ver = "proxy" /\ ~hasId THEN "noResourceId" ELSE "positive"

\* waitForAnalysis after the follow-up getVirusTotalReport: `return await` inside
\* the try block, so a throw is caught by the loop's catch.
FollowUpStep(status) ==
    CASE getVirusTotalReport(status) = "report" -> "return report"
      [] getVirusTotalReport(status) = "null" -> "return null"
      [] OTHER -> "catch"

\* Mutant: the loop's end returns null instead of throwing.
AfterLoop_ReturnsNull == "null"

\* After the loop: throw new Error("Analysis timeout - please check back later")
AfterLoop == "timeout"

TimeoutMessage == "Analysis timeout - please check back later"

----------------------------------------------------------------------------
(* Initial state: nothing called yet *)

NoTarget == [kind |-> "none"]
NoResult == [shape |-> "none"]
NoParse == [type |-> "none"]
NoLookup == [by |-> "none", status |-> "none", reported |-> "none"]
Lookup(by, status, reported) == [by |-> by, status |-> status, reported |-> reported]

Init ==
    /\ ver \in Versions
    /\ apiKey \in BOOLEAN
    /\ op = "none"
    /\ target = NoTarget
    /\ pc = "idle"
    /\ elapsed = 0
    /\ waitResult = "none"
    /\ outcome = Pending
    /\ existingReport = "unset"
    /\ requests = {}
    /\ nSubmit = 0
    /\ lastPoll = "none"
    /\ retriedAfter = {}
    /\ vtReport = "unset"
    /\ reply = "-"
    /\ result = NoResult
    /\ lookup = NoLookup
    /\ submitStatus = "none"
    /\ nPoll = 0
    /\ abandoned = FALSE
    /\ parsed = NoParse

\* The operation ends: `res` goes to the caller.
Finish(res) ==
    /\ pc' = "done"
    /\ outcome' = res

ScanOps == {"scanFile", "scanUrl"}

\* The type argument of the scan's initial getVirusTotalReport call.
LookupType == IF op = "scanFile" THEN "FILE" ELSE "URL"

----------------------------------------------------------------------------
(* scanFileWithVirusTotal / scanUrlWithVirusTotal *)

\* getVirusTotalReport up to its fetch, as the scan's first lookup.  The direct
\* client throws when the key is missing; otherwise the request leaves.
StartLookup(payload) ==
    IF KeyMissing
    THEN /\ Finish(Failure("VirusTotal API Key is missing"))
         /\ UNCHANGED requests
    ELSE /\ pc' = "lookup"
         /\ requests' = requests \cup {Req("GET report", payload)}
         /\ UNCHANGED outcome

\* scanFileWithVirusTotal(file), up to `await calculateFileHash(file)`.
scanFileWithVirusTotal ==
    /\ pc = "idle"
    /\ \E f \in Files : target' = f
    /\ op' = "scanFile"
    /\ pc' = "hash"
    /\ UNCHANGED <<ver, apiKey, abandoned, nPoll, elapsed, waitResult, outcome, existingReport,
                   requests, nSubmit, lastPoll, retriedAfter, analysisVars,
                   lookup, submitStatus>>

\* calculateFileHash resolves (or file.arrayBuffer() rejects), then
\* getVirusTotalReport(fileHash, 'FILE') is called.
calculateFileHash ==
    /\ pc = "hash"
    /\ op = "scanFile"
    /\ \E readable \in BOOLEAN :
          IF readable
          THEN StartLookup("hash")
          ELSE Finish(Failure("InputReadError")) /\ UNCHANGED requests
    /\ UNCHANGED <<ver, apiKey, abandoned, nPoll, op, target, elapsed, waitResult, existingReport,
                   nSubmit, lastPoll, retriedAfter, analysisVars, lookup, submitStatus>>

\* scanUrlWithVirusTotal(url), up to the await of getVirusTotalReport(url, 'URL').
\* Only the proxy revision validates the URL first.
scanUrlWithVirusTotal ==
    /\ pc = "idle"
    /\ op' = "scanUrl"
    /\ \E u \in Urls :
          /\ target' = u
          /\ IF ver = "proxy" /\ ~validateUrlForScanning(u).valid
             THEN /\ Finish(Failure("URL validation failed: "
                                     \o validateUrlForScanning(u).reason))
                  /\ UNCHANGED requests
             ELSE StartLookup("url")
    /\ UNCHANGED <<ver, apiKey, abandoned, nPoll, elapsed, waitResult, existingReport,
                   nSubmit, lastPoll, retriedAfter, analysisVars, lookup, submitStatus>>

\* uploadFileToVirusTotal / submitUrlToVirusTotal up to the fetch.  The proxy
\* revision of submitUrlToVirusTotal validates the URL (again); the direct
\* client checks the key.
StartSubmission ==
    IF KeyMissing
    THEN /\ Finish(Failure("VirusTotal API Key is missing"))
         /\ UNCHANGED <<requests, nSubmit>>
    ELSE IF op = "scanUrl" /\ ver = "proxy" /\ ~validateUrlForScanning(target).valid
    THEN /\ Finish(Failure(validateUrlForScanning(target).reason))
         /\ UNCHANGED <<requests, nSubmit>>
    ELSE /\ pc' = "submit"
         /\ requests' = requests \cup
               {IF op = "scanFile" THEN Req("POST files", "content")
                                   ELSE Req("POST urls", "url")}
         /\ nSubmit' = nSubmit + 1
         /\ UNCHANGED outcome

\* The initial lookup resolves: return the existing report, submit, or fail.
LookupResponse ==
    /\ pc = "lookup"
    /\ op \in ScanOps
    /\ \E status \in Statuses :
          LET r == getVirusTotalReport(status) IN
          /\ lookup' = Lookup("getVirusTotalReport", status, r)
          /\ IF r = "throw"
             THEN /\ Finish(Failure("Report retrieval failed"))
                  /\ UNCHANGED <<existingReport, requests, nSubmit>>
             ELSE /\ existingReport' = r
                  /\ IF ReturnsExisting(r)
                     THEN /\ Finish(Report(LookupType))
                          /\ UNCHANGED <<requests, nSubmit>>
                     ELSE StartSubmission
    /\ UNCHANGED <<ver, apiKey, abandoned, nPoll, op, target, elapsed, waitResult, lastPoll, retriedAfter,
                   analysisVars, submitStatus>>

----------------------------------------------------------------------------
(* waitForAnalysis *)

\* Mutant: the scan hands a null result on to its caller.
ScanAfterWait_ReturnsNull(w) ==
    CASE w = "report" -> [kind |-> "report", msg |-> "", fetchedAs |-> "FILE"]
      [] w = "null" -> [kind |-> "null", msg |-> "", fetchedAs |-> ""]
      [] OTHER -> [kind |-> "error", msg |-> "Analysis timeout - please check back later",
                   fetchedAs |-> ""]

\* What the scan does with waitForAnalysis's result: return the report, throw
\* on null (if (!report) throw ...), or let the timeout error propagate.
ScanAfterWait(w) ==
    CASE w = "report" -> Report("FILE")
      [] w = "null" -> Failure("Failed to get analysis report")
      [] OTHER -> Failure(TimeoutMessage)

\* The head of the while loop, reached with Date.now() - startTime = e after an
\* iteration that ended as `ending` ("start": first entry).  Either the next
\* poll request leaves, or the loop is left and the timeout error is thrown.
WhileLoop(e, ending) ==
    /\ elapsed' = e
    /\ lastPoll' = ending
    /\ IF LoopCondition(e)
       THEN /\ pc' = "poll"
            /\ waitResult' = "running"
            /\ requests' = requests \cup {Req("GET analyses", "scanId")}
            /\ retriedAfter' = IF ending = "start" THEN retriedAfter
                               ELSE retriedAfter \cup {ending}
            /\ UNCHANGED outcome
       ELSE /\ waitResult' = AfterLoop
            /\ Finish(ScanAfterWait(AfterLoop))
            /\ UNCHANGED <<requests, retriedAfter>>

\* The submission resolves: on success waitForAnalysis(scanId) starts
\* (startTime = Date.now()), otherwise the scan fails.
SubmitResponse ==
    /\ pc = "submit"
    /\ \E status \in Statuses :
          LET r == submitResult(status) IN
          /\ submitStatus' = status
          /\ IF r = "scanId"
             THEN WhileLoop(0, "start")
             ELSE /\ Finish(Failure(IF r = "throw status" THEN SubmissionMessage
                                                         ELSE "network error"))
                  /\ UNCHANGED <<elapsed, waitResult, requests, lastPoll, retriedAfter>>
    /\ UNCHANGED <<ver, apiKey, abandoned, nPoll, op, target, existingReport, nSubmit, analysisVars, lookup>>

\* A poll request resolves after `lat` with one of `answers`.
PollAnswered(answers) ==
    /\ pc = "poll"
    /\ \E a \in answers, lat \in Latencies :
          LET step == PollStep(a.status, a.stats, a.hasId)
              ending == PollEnding(a.status, a.stats, a.hasId) IN
          CASE step = "fetchReport" ->
                  /\ pc' = "report"
                  /\ elapsed' = elapsed + lat
                  /\ lastPoll' = ending
                  /\ requests' = requests \cup {Req("GET report", "resourceId")}
                  /\ UNCHANGED <<waitResult, outcome, retriedAfter>>
            [] step = "sleep" ->
                  /\ pc' = "sleep"
                  /\ elapsed' = elapsed + lat
                  /\ lastPoll' = ending
                  /\ UNCHANGED <<waitResult, outcome, requests, retriedAfter>>
            [] OTHER -> WhileLoop(elapsed + lat, ending)
    /\ UNCHANGED <<ver, apiKey, abandoned, op, target, existingReport, nSubmit, analysisVars,
                   lookup, submitStatus>>

PollResponse ==
    /\ op \in ScanOps
    /\ PollAnswered(PollAnswers)
    /\ UNCHANGED nPoll

\* The setTimeout(resolve, pollInterval) fires.
TimerFired ==
    /\ pc = "sleep"
    /\ WhileLoop(elapsed + pollInterval, lastPoll)
    /\ UNCHANGED <<ver, apiKey, abandoned, op, target, existingReport, nSubmit, analysisVars,
                   lookup, submitStatus>>

PollTimer ==
    /\ op \in ScanOps
    /\ TimerFired
    /\ UNCHANGED nPoll

\* The follow-up getVirusTotalReport(resourceId, 'FILE') resolves after `lat`.
ReportResponse ==
    /\ pc = "report"
    /\ \E status \in Statuses, lat \in Latencies :
          LET step == FollowUpStep(status) IN
          /\ lookup' = Lookup("getVirusTotalReport", status, getVirusTotalReport(status))
          /\ CASE step = "return report" ->
                     /\ elapsed' = elapsed + lat
                     /\ waitResult' = "report"
                     /\ Finish(ScanAfterWait("report"))
                     /\ UNCHANGED <<requests, lastPoll, retriedAfter>>
               [] step = "return null" ->
                     /\ elapsed' = elapsed + lat
                     /\ waitResult' = "null"
                     /\ Finish(ScanAfterWait("null"))
                     /\ UNCHANGED <<requests, lastPoll, retriedAfter>>
               [] OTHER -> WhileLoop(elapsed + lat, "reportError")
    /\ UNCHANGED <<ver, apiKey, abandoned, nPoll, op, target, existingReport, nSubmit, analysisVars,
                   submitStatus>>

----------------------------------------------------------------------------
(* waitForAnalysis called on its own, against a steady store *)

\* A store that answers every poll successfully and never reports a positive
\* count total: the analysis stays queued.
SteadyAnswers == {a \in PollAnswers : a.status = "ok" /\ a.stats = "zero"}

\* One more poll request leaves when the loop is entered with elapsed time e.
Polled(e) == nPoll' = IF LoopCondition(e) THEN nPoll + 1 ELSE nPoll

\* waitForAnalysis(scanId): startTime = Date.now(), then the head of the loop.
waitForAnalysis ==
    /\ pc = "idle"
    /\ op' = "waitForAnalysis"
    /\ target' = [kind |-> "scanId"]
    /\ WhileLoop(0, "start")
    /\ Polled(0)
    /\ UNCHANGED <<ver, apiKey, abandoned, existingReport, nSubmit, analysisVars, lookup, submitStatus>>

SteadyPollResponse ==
    /\ op = "waitForAnalysis"
    /\ PollAnswered(SteadyAnswers)
    /\ UNCHANGED nPoll

SteadyPollTimer ==
    /\ op = "waitForAnalysis"
    /\ TimerFired
    /\ Polled(elapsed + pollInterval)

\* The caller abandons the wait while waitForAnalysis is suspended at its
\* fetch or at its setTimeout.  waitForAnalysis(scanId, maxWaitTime,
\* pollInterval) takes no signal and keeps no handle of its timer: nothing of
\* the loop's state changes.
Abandon ==
    /\ op = "waitForAnalysis"
    /\ pc \in {"poll", "sleep"}
    /\ ~abandoned
    /\ abandoned' = TRUE
    /\ UNCHANGED <<ver, apiKey, nPoll, op, target, pc, elapsed, waitResult, outcome,
                   existingReport, requests, nSubmit, lastPoll, retriedAfter,
                   analysisVars, lookup, submitStatus>>

----------------------------------------------------------------------------
(* geminiService: checkVirusTotal and the JSON normaliser *)

\* Mutant: an error answer is taken for "not found in the database".
checkVirusTotal_ErrorsAsNotFound(status) ==
    IF status = "ok" THEN "found" ELSE "notfound"

\* checkVirusTotal after its fetch: {found: true}, {found: false} on 404, and
\* null ("fail gracefully") when the catch block sees a throw.
checkVirusTotal(status) ==
    CASE status = "ok" -> "found"
      [] status = "notfound" -> "notfound"
      [] OTHER -> "null"

\* The texts the reasoning service answers with in the model.
TxtEmpty == ""
TxtEmptyObject == "{}"
TxtNull == "null"
TxtProse == "I'm sorry, I cannot analyze this."
TxtTruncated == "{\"score\": 12, \"verdi"
TxtThreatFull ==
    "{\"score\":0,\"verdict\":\"MALICIOUS\",\"analysis\":\"### Executive Summary\",\"recommendations\":[\"Delete it\"]}"
TxtThreatPartial == "{\"verdict\":\"SAFE\"}"
TxtMediaFull ==
    "{\"verdict\":\"LIKELY_FAKE\",\"confidence\":0,\"technicalDetails\":\"warped\",\"visualArtifacts\":[\"ears\"],\"audioArtifacts\":[]}"
TxtMediaPartial == "{\"confidence\":88}"

EmailReplies == {TxtEmpty, TxtEmptyObject, TxtNull, TxtProse, TxtTruncated,
                 TxtThreatFull, TxtThreatPartial}
MediaReplies == {TxtEmpty, TxtEmptyObject, TxtNull, TxtProse, TxtTruncated,
                 TxtMediaFull, TxtMediaPartial}

\* A parsed JSON value: `has` are the keys present, `val` their values (a key
\* that is not in `has` holds a filler that is never read).
Blank == [score |-> 0, verdict |-> "", analysis |-> "", recommendations |-> <<>>,
          confidence |-> 0, technicalDetails |-> "",
          visualArtifacts |-> <<>>, audioArtifacts |-> <<>>]
\* `nil` are the keys present with the value null.
ObjectWithNulls(has, nil, val) == [type |-> "object", has |-> has, nil |-> nil, val |-> val]
Object(has, val) == ObjectWithNulls(has, {}, val)
SyntaxError == [type |-> "SyntaxError", has |-> {}, nil |-> {}, val |-> Blank]
JsonNull == [type |-> "null", has |-> {}, nil |-> {}, val |-> Blank]

\* JSON.parse on the texts above: an object, the value null, or a SyntaxError.
JSONparse(text) ==
    CASE text = TxtEmptyObject -> Object({}, Blank)
      [] text = TxtNull -> JsonNull
      [] text = TxtThreatFull ->
            Object({"score", "verdict", "analysis", "recommendations"},
                   [Blank EXCEPT !.score = 0, !.verdict = "MALICIOUS",
                                 !.analysis = "### Executive Summary",
                                 !.recommendations = <<"Delete it">>])
      [] text = TxtThreatPartial -> Object({"verdict"}, [Blank EXCEPT !.verdict = "SAFE"])
      [] text = TxtMediaFull ->
            Object({"verdict", "confidence", "technicalDetails", "visualArtifacts",
                    "audioArtifacts"},
                   [Blank EXCEPT !.verdict = "LIKELY_FAKE", !.confidence = 0,
                                 !.technicalDetails = "warped",
                                 !.visualArtifacts = <<"ears">>])
      [] text = TxtMediaPartial -> Object({"confidence"}, [Blank EXCEPT !.confidence = 88])
      [] OTHER -> SyntaxError

\* response.text || "{}"
TextOrEmptyObject(text) == IF text = "" THEN TxtEmptyObject ELSE text

\* const result = JSON.parse(response.text || "{}")
ParseReply(text) == JSONparse(TextOrEmptyObject(text))

\* Reading a property of the parsed value throws a TypeError when it is null.
Throws(json) == json.type # "object"

\* Mutant: a string is defaulted with ?? instead of ||.
OrString_Nullish(json, k, d) == IF k \in json.has THEN json.val[k] ELSE d

\* result.k ?? d: a missing key and the value null take the default.
Nullish(json, k, d) == IF k \in json.has THEN json.val[k] ELSE d
\* result.k || d, for a string (the empty string is falsy, like null) and for
\* an array (every array is truthy)
OrString(json, k, d) ==
    IF k \in json.has /\ json.val[k] # "" THEN json.val[k] ELSE d
OrArray(json, k, d) == IF k \in json.has THEN json.val[k] ELSE d

\* analyzeScamContent, EMAIL: the object returned.
ThreatFromJson(json) ==
    [shape |-> "threat",
     score |-> Nullish(json, "score", 50),
     verdict |-> OrString(json, "verdict", "SUSPICIOUS"),
     analysis |-> OrString(json, "analysis",
                           "### Analysis Unavailable\nCould not process the text."),
     recommendations |-> OrArray(json, "recommendations", <<"Proceed with caution.">>)]

\* analyzeDeepfakeMedia: the object returned.
MediaFromJson(json) ==
    [shape |-> "media",
     verdict |-> OrString(json, "verdict", "UNCERTAIN"),
     confidence |-> Nullish(json, "confidence", 0),
     technicalDetails |-> OrString(json, "technicalDetails",
                                   "Could not process media details."),
     visualArtifacts |-> OrArray(json, "visualArtifacts", <<>>),
     audioArtifacts |-> OrArray(json, "audioArtifacts", <<>>)]

----------------------------------------------------------------------------
(* geminiService: the free-text parsers *)

\* A free-text reply is a sequence of tokens: a header word ("Score:",
\* "Analysis:"), a heading mark ("###"), a bullet mark ("-", "*", "."), a run
\* of digits, a blank or a line break, or a run of other characters.  The
\* regular expressions of the parsers are applied token by token.

IsSpace(t) == t \in {" ", "\n"}

\* Mutant: the expressions lack the i flag and the token is not upper-cased.
toUpperCase_Identity(t) == t

\* String.prototype.toUpperCase on the words of the model (also the folding
\* of the i flag).
toUpperCase(t) ==
    CASE t \in {"Score:", "score:"} -> "SCORE:"
      [] t \in {"Verdict:", "verdict:"} -> "VERDICT:"
      [] t \in {"Analysis:", "analysis:"} -> "ANALYSIS:"
      [] t \in {"Explanation:", "explanation:"} -> "EXPLANATION:"
      [] t \in {"Recommendations:", "recommendations:"} -> "RECOMMENDATIONS:"
      [] t \in {"Security Recommendations", "security recommendations"} ->
            "SECURITY RECOMMENDATIONS"
      [] t \in {"Safe", "safe"} -> "SAFE"
      [] t \in {"Suspicious", "suspicious"} -> "SUSPICIOUS"
      [] t \in {"Malicious", "malicious"} -> "MALICIOUS"
      [] t \in {"True", "true"} -> "TRUE"
      [] t \in {"False", "false"} -> "FALSE"
      [] t \in {"Uncertain", "uncertain"} -> "UNCERTAIN"
      [] OTHER -> t

\* The runs of digits of the model (\d+), and parseInt(run, 10).
Digits == {"0", "1", "2", "12", "150"}
parseInt(t) ==
    CASE t = "0" -> 0
      [] t = "1" -> 1
      [] t = "2" -> 2
      [] t = "12" -> 12
      [] OTHER -> 150

\* \s* from token i on: the index of the first token that is not white space
\* (Len(text) + 1 when there is none).
SkipSpace(text, i) ==
    IF \E j \in i..Len(text) : ~IsSpace(text[j])
    THEN CHOOSE j \in i..Len(text) :
            ~IsSpace(text[j]) /\ \A k \in i..(j - 1) : IsSpace(text[k])
    ELSE Len(text) + 1

\* The words `pat` stand at token i, whatever their case.
HeaderAt(text, i, pat) ==
    /\ i + Len(pat) - 1 <= Len(text)
    /\ \A k \in 1..Len(pat) : toUpperCase(text[i + k - 1]) = toUpperCase(pat[k])

\* text.match(/<pat>\s*(<one of names>)/i): the index of the captured token of
\* the first match, 0 when there is no match.
TokenAfter(text, pat, names) ==
    LET hit(i) == /\ HeaderAt(text, i, pat)
                  /\ SkipSpace(text, i + Len(pat)) <= Len(text)
                  /\ toUpperCase(text[SkipSpace(text, i + Len(pat))]) \in names
    IN  IF \E i \in 1..Len(text) : hit(i)
        THEN SkipSpace(text, Len(pat) + (CHOOSE i \in 1..Len(text) :
                                            hit(i) /\ \A k \in 1..(i - 1) : ~hit(k)))
        ELSE 0

\* text.match(/<pat>\s*([\s\S]+?)(?=<a stop>|$)/i), and with no stops
\* text.match(/<pat>\s*([\s\S]+)/i): the captured tokens of the first match.
\* The capture holds at least one character: it starts at the first token
\* after the white space and ends before the first stop after that token;
\* when only white space follows the header, \s* gives its last character back.
Block(text, pat, stops) ==
    LET hit(i) == HeaderAt(text, i, pat) /\ i + Len(pat) <= Len(text)
    IN  IF ~\E i \in 1..Len(text) : hit(i)
        THEN [found |-> FALSE, tokens |-> <<>>]
        ELSE LET at == CHOOSE i \in 1..Len(text) : hit(i) /\ \A k \in 1..(i - 1) : ~hit(k)
                 from == SkipSpace(text, at + Len(pat))
                 stopAt(k) == \E stop \in stops : HeaderAt(text, k, stop)
                 to == IF \E k \in (from + 1)..Len(text) : stopAt(k)
                       THEN (CHOOSE k \in (from + 1)..Len(text) :
                                stopAt(k) /\ \A m \in (from + 1)..(k - 1) : ~stopAt(m)) - 1
                       ELSE Len(text)
             IN  [found |-> TRUE,
                  tokens |-> IF from > Len(text) THEN <<text[Len(text)]>>
                             ELSE SubSeq(text, from, to)]

\* The string that a sequence of tokens is.
RECURSIVE Join(_)
Join(tokens) == IF tokens = <<>> THEN "" ELSE Head(tokens) \o Join(Tail(tokens))

\* String.prototype.trim
trim(tokens) ==
    LET from == SkipSpace(tokens, 1)
    IN  IF from > Len(tokens) THEN <<>>
        ELSE SubSeq(tokens, from,
                    CHOOSE j \in from..Len(tokens) :
                        ~IsSpace(tokens[j]) /\ \A k \in (j + 1)..Len(tokens) : IsSpace(tokens[k]))

\* String.prototype.split on the line break
RECURSIVE split(_)
split(tokens) ==
    IF \E i \in 1..Len(tokens) : tokens[i] = "\n"
    THEN LET i == CHOOSE i \in 1..Len(tokens) :
                     tokens[i] = "\n" /\ \A k \in 1..(i - 1) : tokens[k] # "\n"
         IN  <<SubSeq(tokens, 1, i - 1)>> \o split(SubSeq(tokens, i + 1, Len(tokens)))
    ELSE <<tokens>>

\* line.replace(/^-\s*/, ''), line.replace(/^\*\s*/, '') and, for the mark
\* "N.", line.replace(/^\d+\.\s*/, '')
replace(line, mark) ==
    LET n == IF mark = "N." THEN 2 ELSE 1
        marked == IF mark = "N."
                  THEN Len(line) >= 2 /\ line[1] \in Digits /\ line[2] = "."
                  ELSE Len(line) >= 1 /\ line[1] = mark
    IN  IF marked THEN SubSeq(line, SkipSpace(line, n + 1), Len(line)) ELSE line

\* block.split('\n').map(s => s.trim().replace(...).replace(...).replace(...))
\*      .filter(s => s.length > 0)
Recommendations(block) ==
    SelectSeq([i \in 1..Len(split(block)) |->
                  Join(replace(replace(replace(trim(split(block)[i]), "-"), "*"), "N."))],
              LAMBDA line : line # "")

\* The parsing of a threat assessment, as analyzeScamContent and the two
\* reporting operations do it: they differ in the header of the
\* recommendations and in where the analysis stops.
ParseThreat(text, recHeader, stops) ==
    LET scoreAt == TokenAfter(text, <<"Score:">>, Digits)
        verdictAt == TokenAfter(text, <<"Verdict:">>, {"SAFE", "SUSPICIOUS", "MALICIOUS"})
        analysisMatch == Block(text, <<"Analysis:">>, stops)
        recMatch == Block(text, recHeader, {})
    IN  [shape |-> "threat",
         score |-> IF scoreAt # 0 THEN parseInt(text[scoreAt]) ELSE 50,
         verdict |-> IF verdictAt # 0 /\ toUpperCase(text[verdictAt]) \in {"SAFE", "MALICIOUS"}
                     THEN toUpperCase(text[verdictAt])
                     ELSE "SUSPICIOUS",
         analysis |-> IF analysisMatch.found THEN Join(trim(analysisMatch.tokens))
                      ELSE Join(text),
         recommendations |-> IF recMatch.found THEN Recommendations(recMatch.tokens)
                             ELSE <<"Proceed with caution.">>]

\* analyzeScamContent, URL or FILE
ThreatFromText(text) ==
    ParseThreat(text, <<"Recommendations:">>, {<<"Recommendations:">>})

\* analyzeFileWithVirusTotalAndGemini / analyzeUrlWithVirusTotalAndGemini
ReportFromText(text) ==
    ParseThreat(text, <<"###", " ", "Security Recommendations">>, {<<"###">>})

\* checkFactWithGemini: the explanation is looked for only when a verdict matched.
\* Mutant: the explanation is looked for whether or not a verdict was found.
FactFromText_AlwaysExplanation(text) ==
    LET verdictAt == TokenAfter(text, <<"Verdict:">>, {"TRUE", "FALSE", "UNCERTAIN"})
        explanationMatch == Block(text, <<"Explanation:">>, {})
    IN  [shape |-> "fact",
         verdict |-> IF verdictAt # 0 /\ toUpperCase(text[verdictAt]) \in {"TRUE", "FALSE"}
                     THEN toUpperCase(text[verdictAt])
                     ELSE "UNCERTAIN",
         explanation |-> IF explanationMatch.found
                         THEN Join(trim(explanationMatch.tokens))
                         ELSE Join(text)]

\* checkFactWithGemini: the manual parsing of the text response.
FactFromText(text) ==
    LET verdictAt == TokenAfter(text, <<"Verdict:">>, {"TRUE", "FALSE", "UNCERTAIN"})
        explanationMatch == Block(text, <<"Explanation:">>, {})
    IN  [shape |-> "fact",
         verdict |-> IF verdictAt # 0 /\ toUpperCase(text[verdictAt]) \in {"TRUE", "FALSE"}
                     THEN toUpperCase(text[verdictAt])
                     ELSE "UNCERTAIN",
         explanation |-> IF verdictAt # 0 /\ explanationMatch.found
                         THEN Join(trim(explanationMatch.tokens))
                         ELSE Join(text)]

FromText(o, text) ==
    CASE o \in {"scamURL", "scamFILE"} -> ThreatFromText(text)
      [] o = "checkFact" -> FactFromText(text)
      [] OTHER -> ReportFromText(text)

\* The reply of the layout example of the specification (section 8), and the
\* free-text replies of the operations that run a whole analysis.
FreeTextReplies ==
    {<<>>,
     <<"Verdict:", " ", "MALICIOUS", "\n", "Score:", " ", "12", "\n", "Analysis:", "\n",
       "###", " ", "Executive Summary", "\n", "Bad file", "\n",
       "Recommendations:", "\n", "-", " ", "Delete it", "\n", "-", " ", "Scan system">>}

Returned == [kind |-> "result", msg |-> "", fetchedAs |-> ""]

ScamOps == {"scamURL", "scamFILE", "scamEMAIL"}

\* The reporting operations built on a scan.
WrapperOps == {"analyzeFile", "analyzeUrl"}

\* The error each analysis throws from its catch block.
AnalyzeFileFailure == "Failed to analyze file. Please try again."
AnalyzeUrlFailure == "Failed to analyze URL. Please try again."

ScamFailure ==
    CASE op = "scamURL" -> "Failed to analyze URL."
      [] op = "scamFILE" -> "Failed to analyze FILE."
      [] op = "scamEMAIL" -> "Failed to analyze content."
      [] op = "analyzeFile" -> AnalyzeFileFailure
      [] op = "analyzeUrl" -> AnalyzeUrlFailure
      [] OTHER -> "Failed to analyze media. File might be too large or format unsupported."

\* ai.models.generateContent(...) is called; the prompt carries the argument.
StartGenerate(t) ==
    /\ pc' = "generate"
    /\ requests' = requests \cup
          {Req("generate", CASE t.kind = "url" -> "url"
                             [] t.kind = "hash" -> "hash"
                             [] t.kind = "media" -> "media"
                             [] t.kind = "file" -> "metadata"
                             [] OTHER -> "text")}

\* analyzeScamContent(text, type) up to its first await.  For a file the caller
\* (handleAnalyze) passes the SHA-256 of the file as the text.
analyzeScamContent ==
    /\ pc = "idle"
    /\ \E type \in {"EMAIL", "URL", "FILE"} :
          \E t \in (CASE type = "URL" -> Urls
                      [] type = "FILE" -> {[kind |-> "hash"]}
                      [] OTHER -> {[kind |-> "text"]}) :
             /\ target' = t
             /\ op' = (CASE type = "URL" -> "scamURL"
                         [] type = "FILE" -> "scamFILE"
                         [] OTHER -> "scamEMAIL")
             /\ IF type = "EMAIL"
                THEN StartGenerate(t) /\ UNCHANGED vtReport
                ELSE IF ~apiKey
                THEN StartGenerate(t) /\ vtReport' = "null"
                ELSE /\ pc' = "check"
                     /\ requests' = requests \cup
                           {Req("GET report", IF type = "URL" THEN "url" ELSE "hash")}
                     /\ UNCHANGED vtReport
    /\ UNCHANGED <<ver, apiKey, abandoned, nPoll, elapsed, waitResult, outcome, existingReport,
                   nSubmit, lastPoll, retriedAfter, reply, result, parsed, lookup,
                   submitStatus>>

\* checkVirusTotal's fetch resolves; the prompt is built and generateContent called.
CheckResponse ==
    /\ pc = "check"
    /\ \E status \in Statuses :
          /\ vtReport' = checkVirusTotal(status)
          /\ lookup' = Lookup("checkVirusTotal", status, checkVirusTotal(status))
    /\ StartGenerate(target)
    /\ UNCHANGED <<ver, apiKey, abandoned, nPoll, op, target, elapsed, waitResult, outcome, existingReport,
                   nSubmit, lastPoll, retriedAfter, reply, result, parsed, submitStatus>>

\* analyzeDeepfakeMedia(base64Data, mimeType) up to its await.
analyzeDeepfakeMedia ==
    /\ pc = "idle"
    /\ op' = "deepfake"
    /\ target' = [kind |-> "media"]
    /\ StartGenerate([kind |-> "media"])
    /\ UNCHANGED <<ver, apiKey, abandoned, nPoll, elapsed, waitResult, outcome, existingReport,
                   nSubmit, lastPoll, retriedAfter, analysisVars, lookup, submitStatus>>

\* generateContent rejects: every analysis catches and throws its own error.
GenerateFails ==
    /\ pc = "generate"
    /\ Finish(Failure(ScamFailure))
    /\ UNCHANGED <<ver, apiKey, abandoned, nPoll, op, target, elapsed, waitResult, existingReport,
                   requests, nSubmit, lastPoll, retriedAfter, analysisVars,
                   lookup, submitStatus>>

\* generateContent resolves with a text; the result is normalised.
GenerateResponse ==
    /\ pc = "generate"
    /\ \E text \in (CASE op = "scamEMAIL" -> EmailReplies
                      [] op = "deepfake" -> MediaReplies
                      [] OTHER -> FreeTextReplies) :
          /\ IF op \in {"scamURL", "scamFILE"} \cup WrapperOps
             THEN /\ reply' = Join(text)
                  /\ result' = FromText(op, text)
                  /\ Finish(Returned)
                  /\ UNCHANGED parsed
             ELSE /\ reply' = text
                  /\ parsed' = ParseReply(text)
                  /\ IF Throws(ParseReply(text))
                     THEN /\ Finish(Failure(ScamFailure))
                          /\ UNCHANGED result
                     ELSE /\ result' = IF op = "scamEMAIL"
                                       THEN ThreatFromJson(ParseReply(text))
                                       ELSE MediaFromJson(ParseReply(text))
                          /\ Finish(Returned)
    /\ UNCHANGED <<ver, apiKey, abandoned, nPoll, op, target, elapsed, waitResult, existingReport,
                   requests, nSubmit, lastPoll, retriedAfter, vtReport,
                   lookup, submitStatus>>

----------------------------------------------------------------------------
(* URL strings and new URL(url) *)

\* A URL string: whether it is well formed (new URL accepts it), how its host
\* is written (a name, a dotted IPv4 address, an IPv6 address, which a URL
\* writes in brackets) and the characters of the host.
UrlString(wellFormed, form, host) ==
    [kind |-> "urlString", wellFormed |-> wellFormed, form |-> form, host |-> host]


\* String.prototype.toLowerCase, character by character.
toLowerCase(chars) ==
    LET upper == <<"A","B","C","D","E","F","G","H","I","J","K","L","M",
                   "N","O","P","Q","R","S","T","U","V","W","X","Y","Z">>
        lower == <<"a","b","c","d","e","f","g","h","i","j","k","l","m",
                   "n","o","p","q","r","s","t","u","v","w","x","y","z">>
    IN  [i \in 1..Len(chars) |->
            IF \E k \in 1..Len(upper) : upper[k] = chars[i]
            THEN lower[CHOOSE k \in 1..Len(upper) : upper[k] = chars[i]]
            ELSE chars[i]]

\* new URL(url), then urlObj.hostname.toLowerCase(): the constructor throws on
\* a malformed string; the hostname of an IPv6 host keeps its brackets.
ParseUrl(u) ==
    IF ~u.wellFormed THEN Url(FALSE, <<>>)
    ELSE IF u.form = "ipv6" THEN Url(TRUE, <<"[">> \o toLowerCase(u.host) \o <<"]">>)
    ELSE Url(TRUE, toLowerCase(u.host))

\* The URL strings validated in the model.  IPv4 hosts: nine inside the
\* private ranges, then six just outside them.
IPv4Hosts ==
    { <<"1","2","7",".","0",".","0",".","1">>,
      <<"0",".","0",".","0",".","0">>,
      <<"1","0",".","0",".","0",".","5">>,
      <<"1","0",".","2","5","5",".","2","5","5",".","2","5","5">>,
      <<"1","9","2",".","1","6","8",".","1",".","1">>,
      <<"1","7","2",".","1","6",".","0",".","1">>,
      <<"1","7","2",".","2","0",".","1","0",".","2">>,
      <<"1","7","2",".","3","1",".","2","5","5",".","2","5","5">>,
      <<"1","6","9",".","2","5","4",".","1","6","9",".","2","5","4">>,
      <<"8",".","8",".","8",".","8">>,
      <<"1","1",".","0",".","0",".","1">>,
      <<"1","7","2",".","1","5",".","0",".","1">>,
      <<"1","7","2",".","3","2",".","0",".","1">>,
      <<"1","9","2",".","1","6","9",".","1",".","1">>,
      <<"1","6","9",".","2","5","5",".","0",".","1">> }
IPv6Hosts ==
    { <<":",":","1">>,
      <<"f","c","0","0",":",":","1">>,
      <<"f","e","8","0",":",":","1">>,
      <<"F","E","8","0",":",":","1">> }
HostPrefixes ==
    { <<>>,
      <<"s","u","b",".">>,
      <<"w","w","w",".">>,
      <<"1","0",".">>,
      <<"l","o","c","a","l","h","o","s","t",".">>,
      <<"n","o","t">> }
BaseNames ==
    { <<"e","x","a","m","p","l","e",".","c","o","m">>,
      <<"n","e","w","s",".","e","x","a","m","p","l","e",".","c","o","m">>,
      <<"v","i","r","u","s","t","o","t","a","l",".","c","o","m">>,
      <<"v","i","r","u","s","t","o","t","a","l",".","c","o","m",".","e","v","i","l",".","o","r","g">>,
      <<"g","o","o","g","l","e",".","c","o","m">>,
      <<"g","o","o","g","l","e",".","c","o","m",".","e","v","i","l",".","o","r","g">>,
      <<"x",".","c","o","m">>,
      <<"y","o","u","t","u","b","e",".","c","o","m">>,
      <<"E","x","a","m","p","l","e",".","C","O","M">> }
UrlStrings ==
    {UrlString(FALSE, "none", <<>>), UrlString(FALSE, "name", <<"n","o","t"," ","a"," ","u","r","l">>)}
    \cup {UrlString(TRUE, "ipv4", h) : h \in IPv4Hosts}
    \cup {UrlString(TRUE, "ipv6", h) : h \in IPv6Hosts}
    \cup {UrlString(TRUE, "name", <<"l","o","c","a","l","h","o","s","t">>),
          UrlString(TRUE, "name", <<"L","O","C","A","L","H","O","S","T">>)}
    \cup {UrlString(TRUE, "name", pre \o base) : pre \in HostPrefixes, base \in BaseNames}

\* validateUrlForScanning(url) is called with a URL string and returns.
InitValidate ==
    /\ ver = "proxy"
    /\ apiKey = FALSE
    /\ op = "validateUrlForScanning"
    /\ target \in UrlStrings
    /\ pc = "idle"
    /\ elapsed = 0
    /\ waitResult = "none"
    /\ outcome = Pending
    /\ existingReport = "unset"
    /\ requests = {}
    /\ nSubmit = 0
    /\ lastPoll = "none"
    /\ retriedAfter = {}
    /\ vtReport = "unset"
    /\ reply = "-"
    /\ result = NoResult
    /\ lookup = NoLookup
    /\ submitStatus = "none"
    /\ nPoll = 0
    /\ abandoned = FALSE
    /\ parsed = NoParse

ValidateUrl ==
    /\ pc = "idle"
    /\ op = "validateUrlForScanning"
    /\ result' = [shape |-> "validation",
                  valid |-> validateUrlForScanning(ParseUrl(target)).valid,
                  reason |-> validateUrlForScanning(ParseUrl(target)).reason]
    /\ Finish(Returned)
    /\ UNCHANGED <<ver, apiKey, abandoned, nPoll, op, target, elapsed, waitResult, existingReport,
                   requests, nSubmit, lastPoll, retriedAfter, vtReport, reply, parsed,
                   lookup, submitStatus>>

SpecValidate == InitValidate /\ [][ValidateUrl]_vars

----------------------------------------------------------------------------
(* The JSON normalisers on every parsed object *)

ThreatFields == {"score", "verdict", "analysis", "recommendations"}
MediaFields == {"verdict", "confidence", "technicalDetails", "visualArtifacts",
                "audioArtifacts"}

\* A key of the parsed object is missing, holds null, holds the falsy value of
\* its type (0, "", []: the values of Blank), holds a value of Filled, which
\* the responseSchema describes, or (score, verdict, confidence) holds a value
\* of Unlisted, of the right JSON type but outside the described values.
FieldStates == {"missing", "null", "falsy", "value", "unlisted"}
Filled(fields) ==
    [score |-> 87, verdict |-> IF fields = ThreatFields THEN "MALICIOUS" ELSE "LIKELY_FAKE",
     analysis |-> "### Executive Summary", recommendations |-> <<"Delete it">>,
     confidence |-> 88, technicalDetails |-> "warped", visualArtifacts |-> <<"ears">>,
     audioArtifacts |-> <<"robotic">>]
Unlisted == [score |-> 150, verdict |-> "DANGEROUS", confidence |-> 150]

ParsedObject(fields, f) ==
    ObjectWithNulls({k \in fields : f[k] \in {"falsy", "value", "unlisted"}},
                    {k \in fields : f[k] = "null"},
                    [k \in DOMAIN Blank |->
                        IF k \in fields /\ f[k] = "value" THEN Filled(fields)[k]
                        ELSE IF k \in fields /\ f[k] = "unlisted" THEN Unlisted[k]
                        ELSE Blank[k]])

ParsedObjects(fields) ==
    {ParsedObject(fields, f) :
        f \in {g \in [fields -> FieldStates] :
                 \A k \in fields : g[k] = "unlisted" => k \in DOMAIN Unlisted}}

\* JSON.parse has returned an object; the result is built from it.
InitNormalize ==
    /\ ver = "direct"
    /\ apiKey = TRUE
    /\ op \in {"scamEMAIL", "deepfake"}
    /\ target = (IF op = "scamEMAIL" THEN [kind |-> "text"] ELSE [kind |-> "media"])
    /\ pc = "parsed"
    /\ parsed \in ParsedObjects(IF op = "scamEMAIL" THEN ThreatFields ELSE MediaFields)
    /\ elapsed = 0
    /\ waitResult = "none"
    /\ outcome = Pending
    /\ existingReport = "unset"
    /\ requests = {Req("generate", target.kind)}
    /\ nSubmit = 0
    /\ lastPoll = "none"
    /\ retriedAfter = {}
    /\ vtReport = "unset"
    /\ reply = "-"
    /\ result = NoResult
    /\ lookup = NoLookup
    /\ submitStatus = "none"
    /\ nPoll = 0
    /\ abandoned = FALSE

Normalize ==
    /\ pc = "parsed"
    /\ result' = IF op = "scamEMAIL" THEN ThreatFromJson(parsed) ELSE MediaFromJson(parsed)
    /\ Finish(Returned)
    /\ UNCHANGED <<ver, apiKey, abandoned, nPoll, op, target, elapsed, waitResult, existingReport,
                   requests, nSubmit, lastPoll, retriedAfter, vtReport, reply, parsed,
                   lookup, submitStatus>>

SpecNormalize == InitNormalize /\ [][Normalize]_vars

----------------------------------------------------------------------------
(* The free-text parsers on replies written in the layout of the prompts *)

\* What the reasoning service writes into a reply: the score (NoScore: no
\* score line), the verdict and how it is spelled ("": no verdict line; a
\* word outside the enumeration is no verdict), the
\* spelling of the headers, whether the narrative has its header, the
\* narrative, and the recommendations block: its lines, each a bullet mark
\* (with the white space around it) and a text.
NoScore == 0 - 1
ScoreToken(n) == CASE n = 0 -> "0" [] n = 12 -> "12" [] OTHER -> "150"

ThreatVerdicts ==
    {[verdict |-> "", as |-> ""], [verdict |-> "SAFE", as |-> "SAFE"],
     [verdict |-> "MALICIOUS", as |-> "Malicious"],
     [verdict |-> "SUSPICIOUS", as |-> "suspicious"],
     [verdict |-> "", as |-> "Dangerous"]}
FactVerdicts ==
    {[verdict |-> "", as |-> ""], [verdict |-> "TRUE", as |-> "TRUE"],
     [verdict |-> "FALSE", as |-> "False"],
     [verdict |-> "UNCERTAIN", as |-> "uncertain"],
     [verdict |-> "", as |-> "Misleading"]}

Headers ==
    {[score |-> "Score:", verdict |-> "Verdict:", analysis |-> "Analysis:",
      explanation |-> "Explanation:", recommendations |-> "Recommendations:",
      security |-> "Security Recommendations"],
     [score |-> "score:", verdict |-> "verdict:", analysis |-> "analysis:",
      explanation |-> "explanation:", recommendations |-> "recommendations:",
      security |-> "security recommendations"]}

\* Narratives: none, plain, one sub-section, the three sub-sections of the prompt.
Narratives ==
    {<<>>,
     <<"Bad file">>,
     <<"###", " ", "Executive Summary", "\n", "Bad file">>,
     <<"###", " ", "Executive Summary", "\n", "Bad file", "\n", "\n",
       "###", " ", "Key Risk Factors", "\n", "-", " ", "Flagged by vendors", "\n", "\n",
       "###", " ", "Technical Analysis", "\n", "Known trojan">>}

Line(mark, text) == [mark |-> mark, text |-> text]
RecommendationBlocks ==
    {[present |-> FALSE, lines |-> <<>>]} \cup
    {[present |-> TRUE, lines |-> lines] : lines \in
       {<<>>,
        <<Line(<<"-", " ">>, <<"Delete it">>), Line(<<"-", " ">>, <<"Scan system">>)>>,
        <<Line(<<"*", " ">>, <<"Delete it">>), Line(<<>>, <<>>),
          Line(<<"1", ".", " ">>, <<"Scan system">>)>>,
        <<Line(<<>>, <<"Delete it">>), Line(<<" ", " ", "-", " ">>, <<"Scan system">>)>>,
        <<Line(<<"-", " ">>, <<"*", "*", "Isolate", "*", "*", " ", "the host">>),
          Line(<<"2", ".", " ">>, <<"Scan system">>)>>}}

ReplyContents(o) ==
    IF o = "checkFact"
    THEN {[kind |-> "reply", score |-> NoScore, verdict |-> v.verdict, as |-> v.as,
           headers |-> h, header |-> b, narrative |-> n, block |-> [present |-> FALSE, lines |-> <<>>]] :
             v \in FactVerdicts, h \in Headers, b \in BOOLEAN, n \in Narratives}
    ELSE {[kind |-> "reply", score |-> sc, verdict |-> v.verdict, as |-> v.as,
           headers |-> h, header |-> b, narrative |-> n, block |-> r] :
             sc \in {NoScore, 0, 12, 150}, v \in ThreatVerdicts, h \in Headers, b \in BOOLEAN,
             n \in Narratives, r \in RecommendationBlocks}

RECURSIVE RenderLines(_)
RenderLines(lines) ==
    IF lines = <<>> THEN <<>>
    ELSE <<"\n">> \o Head(lines).mark \o Head(lines).text \o RenderLines(Tail(lines))

\* The reply in the layout that the prompt of operation o asks for.
Render(c, o) ==
    (IF c.score = NoScore THEN <<>>
     ELSE <<c.headers.score, " ", ScoreToken(c.score), "\n">>)
    \o (IF c.as = "" THEN <<>> ELSE <<c.headers.verdict, " ", c.as, "\n">>)
    \o (IF o = "checkFact" THEN <<>> ELSE <<"\n">>)
    \o (IF ~c.header THEN <<>>
        ELSE <<(IF o = "checkFact" THEN c.headers.explanation ELSE c.headers.analysis),
               "\n">>)
    \o c.narrative
    \o (IF ~c.block.present THEN <<>>
        ELSE <<"\n", "\n">>
             \o (IF o \in WrapperOps THEN <<"###", " ", c.headers.security>>
                 ELSE <<c.headers.recommendations>>)
             \o RenderLines(c.block.lines))

ParserOps == {"scamURL", "scamFILE", "checkFact"} \cup WrapperOps

\* generateContent was called by one of the free-text operations.
InitParse ==
    /\ ver = "direct"
    /\ apiKey = TRUE
    /\ op \in ParserOps
    /\ target \in ReplyContents(op)
    /\ pc = "generate"
    /\ elapsed = 0
    /\ waitResult = "none"
    /\ outcome = Pending
    /\ existingReport = "unset"
    /\ requests = {Req("generate", "text")}
    /\ nSubmit = 0
    /\ lastPoll = "none"
    /\ retriedAfter = {}
    /\ vtReport = "unset"
    /\ reply = "-"
    /\ result = NoResult
    /\ lookup = NoLookup
    /\ submitStatus = "none"
    /\ nPoll = 0
    /\ abandoned = FALSE
    /\ parsed = NoParse

\* It resolves with the reply; the result is parsed from response.text.
ParseText ==
    /\ pc = "generate"
    /\ target.kind = "reply"
    /\ reply' = Join(Render(target, op))
    /\ result' = FromText(op, Render(target, op))
    /\ Finish(Returned)
    /\ UNCHANGED <<ver, apiKey, abandoned, nPoll, op, target, elapsed, waitResult, existingReport,
                   requests, nSubmit, lastPoll, retriedAfter, vtReport, parsed,
                   lookup, submitStatus>>

SpecParse == InitParse /\ [][ParseText]_vars

----------------------------------------------------------------------------
(* Two callers scan the same resource at the same time *)

\* Every caller runs its own call of scanFileWithVirusTotal /
\* scanUrlWithVirusTotal: existingReport, uploadResult / submitResult and
\* report are constants local to the call, and the module keeps no state of
\* its own.  In this specification pc, existingReport, lookup, submitStatus,
\* waitResult and outcome are held per caller; the store counts the
\* submissions it receives (nSubmit).
Callers == {"first", "second"}

InitRace ==
    /\ ver \in Versions
    /\ apiKey \in BOOLEAN
    /\ op \in ScanOps
    /\ target = (IF op = "scanFile" THEN [kind |-> "file"]
                 ELSE Url(TRUE, <<"e","x","a","m","p","l","e",".","o","r","g">>))
    /\ pc = [c \in Callers |-> "idle"]
    /\ elapsed = 0
    /\ waitResult = [c \in Callers |-> "none"]
    /\ outcome = [c \in Callers |-> Pending]
    /\ existingReport = [c \in Callers |-> "unset"]
    /\ requests = {}
    /\ nSubmit = 0
    /\ lastPoll = "none"
    /\ retriedAfter = {}
    /\ vtReport = "unset"
    /\ reply = "-"
    /\ result = NoResult
    /\ lookup = [c \in Callers |-> NoLookup]
    /\ submitStatus = [c \in Callers |-> "none"]
    /\ nPoll = 0
    /\ abandoned = FALSE
    /\ parsed = NoParse

\* Caller c's call ends with res.
Return(c, res) ==
    /\ pc' = [pc EXCEPT ![c] = "done"]
    /\ outcome' = [outcome EXCEPT ![c] = res]

\* Caller c calls the scan; it runs up to the fetch of the initial lookup (the
\* file is hashed, the URL passes the proxy's validation).
Scan(c) ==
    /\ pc[c] = "idle"
    /\ IF KeyMissing
       THEN Return(c, Failure("VirusTotal API Key is missing")) /\ UNCHANGED requests
       ELSE /\ pc' = [pc EXCEPT ![c] = "lookup"]
            /\ requests' = requests \cup
                  {Req("GET report", IF op = "scanFile" THEN "hash" ELSE "url")}
            /\ UNCHANGED outcome
    /\ UNCHANGED <<ver, apiKey, abandoned, nPoll, op, target, elapsed, waitResult,
                   existingReport, nSubmit, lastPoll, retriedAfter, analysisVars,
                   lookup, submitStatus>>

\* Caller c's initial lookup resolves: return the existing report, submit, or fail.
LookupOf(c) ==
    /\ pc[c] = "lookup"
    /\ \E status \in Statuses :
          LET r == getVirusTotalReport(status) IN
          /\ lookup' = [lookup EXCEPT ![c] = Lookup("getVirusTotalReport", status, r)]
          /\ IF r = "throw"
             THEN /\ Return(c, Failure("Report retrieval failed"))
                  /\ UNCHANGED <<existingReport, requests, nSubmit>>
             ELSE /\ existingReport' = [existingReport EXCEPT ![c] = r]
                  /\ IF ReturnsExisting(r)
                     THEN /\ Return(c, Report(LookupType))
                          /\ UNCHANGED <<requests, nSubmit>>
                     ELSE /\ pc' = [pc EXCEPT ![c] = "submit"]
                          /\ requests' = requests \cup
                                {IF op = "scanFile" THEN Req("POST files", "content")
                                                    ELSE Req("POST urls", "url")}
                          /\ nSubmit' = nSubmit + 1
                          /\ UNCHANGED outcome
    /\ UNCHANGED <<ver, apiKey, abandoned, nPoll, op, target, elapsed, waitResult,
                   lastPoll, retriedAfter, analysisVars, submitStatus>>

\* Caller c's submission resolves: waitForAnalysis(scanId) starts, or the scan fails.
SubmissionOf(c) ==
    /\ pc[c] = "submit"
    /\ \E status \in Statuses :
          /\ submitStatus' = [submitStatus EXCEPT ![c] = status]
          /\ IF submitResult(status) = "scanId"
             THEN pc' = [pc EXCEPT ![c] = "wait"] /\ UNCHANGED outcome
             ELSE Return(c, Failure(IF submitResult(status) = "throw status"
                                    THEN SubmissionMessage ELSE "network error"))
    /\ UNCHANGED <<ver, apiKey, abandoned, nPoll, op, target, elapsed, waitResult,
                   existingReport, requests, nSubmit, lastPoll, retriedAfter,
                   analysisVars, lookup>>

\* Caller c's waitForAnalysis ends (with a report, with null or with the
\* timeout error) and the scan returns or throws.
WaitOf(c) ==
    /\ pc[c] = "wait"
    /\ \E w \in {"report", "null", "timeout"} :
          /\ waitResult' = [waitResult EXCEPT ![c] = w]
          /\ Return(c, ScanAfterWait(w))
    /\ UNCHANGED <<ver, apiKey, abandoned, nPoll, op, target, elapsed, existingReport,
                   requests, nSubmit, lastPoll, retriedAfter, analysisVars,
                   lookup, submitStatus>>

NextRace == \E c \in Callers : Scan(c) \/ LookupOf(c) \/ SubmissionOf(c) \/ WaitOf(c)

SpecRace == InitRace /\ [][NextRace]_vars

----------------------------------------------------------------------------
(* getVirusTotalReport: the report built from the store's answer *)

CountKeys == {"malicious", "suspicious", "harmless", "undetected"}

\* attributes.last_analysis_stats of an answer: absent, or an object with
\* some of the count keys (a key that is not in `has` holds a filler that is
\* never read).
AnalysisStats ==
    {[present |-> FALSE, has |-> {}, val |-> [k \in CountKeys |-> 0]]} \cup
    UNION {{[present |-> TRUE, has |-> h, val |-> v] :
               v \in {w \in [CountKeys -> {0, 3}] : \A k \in CountKeys \ h : w[k] = 0}} :
           h \in SUBSET CountKeys}

\* The object getVirusTotalReport returns.  The direct client adds the four
\* counts as they are (a missing one is undefined and the sum NaN) and hands
\* the statistics on; the proxy client reads each count with `|| 0` and
\* replaces absent statistics by an object of zeros.
VirusTotalReport(v, stats) ==
    [shape |-> "report",
     total |-> [nan |-> v = "direct" /\ stats.has # CountKeys,
                n |-> stats.val["malicious"] + stats.val["suspicious"]
                      + stats.val["harmless"] + stats.val["undetected"]],
     analysis |-> IF v = "proxy" /\ ~stats.present
                  THEN [has |-> CountKeys \cup {"timeout", "total"},
                        val |-> [k \in CountKeys |-> 0]]
                  ELSE [has |-> stats.has, val |-> stats.val]]

\* The store has answered the report request with 200 and a body.
InitReport ==
    /\ ver \in Versions
    /\ apiKey = TRUE
    /\ op = "getVirusTotalReport"
    /\ target \in {[kind |-> "stats", stats |-> a] : a \in AnalysisStats}
    /\ pc = "report"
    /\ elapsed = 0
    /\ waitResult = "none"
    /\ outcome = Pending
    /\ existingReport = "unset"
    /\ requests = {Req("GET report", "hash")}
    /\ nSubmit = 0
    /\ lastPoll = "none"
    /\ retriedAfter = {}
    /\ vtReport = "unset"
    /\ reply = "-"
    /\ result = NoResult
    /\ lookup = NoLookup
    /\ submitStatus = "none"
    /\ nPoll = 0
    /\ abandoned = FALSE
    /\ parsed = NoParse

\* response.json() resolves.  In the direct client reading a count of absent
\* statistics throws a TypeError, which the catch block throws on.
ReportBody ==
    /\ pc = "report"
    /\ target.kind = "stats"
    /\ IF ver = "direct" /\ ~target.stats.present
       THEN Finish(Failure("TypeError")) /\ UNCHANGED result
       ELSE result' = VirusTotalReport(ver, target.stats) /\ Finish(Returned)
    /\ UNCHANGED <<ver, apiKey, abandoned, nPoll, op, target, elapsed, waitResult, existingReport,
                   requests, nSubmit, lastPoll, retriedAfter, vtReport, reply, parsed,
                   lookup, submitStatus>>

SpecReport == InitReport /\ [][ReportBody]_vars

----------------------------------------------------------------------------
(* checkFactWithGemini: the source list *)

\* Bound: the length of the registry's claim list and of the grounding chunks.
MaxItems == 2

Uris == {"https://a.example/1", "https://b.example/2"}

\* A claim of the registry's answer: whether it has a claimReview, the url of
\* the review ("": none) and the text of its title.
RegistryClaims ==
    {[review |-> FALSE, url |-> "", title |-> "A"]} \cup
    {[review |-> TRUE, url |-> u, title |-> t] : u \in Uris \cup {""}, t \in {"A", "B"}}

\* A grounding chunk: chunk.web.uri and chunk.web.title ("": none).
GroundingChunks == {[uri |-> u, title |-> t] : u \in Uris \cup {""}, t \in {"", "T", "U"}}

\* searchFactCheckTools: one source is pushed for every claim whose first
\* review has a url.
searchFactCheckTools(claims) ==
    LET reviewed == SelectSeq(claims, LAMBDA c : c.review /\ c.url # "")
    IN  [i \in 1..Len(reviewed) |->
            [title |-> "[Fact Check] " \o reviewed[i].title, uri |-> reviewed[i].url]]

\* items.forEach(x => { if (!list.some(s => s.uri === x.uri)) list.push(x) })
RECURSIVE PushUnique(_, _)
PushUnique(list, items) ==
    IF items = <<>> THEN list
    ELSE PushUnique(IF \E i \in 1..Len(list) : list[i].uri = Head(items).uri
                    THEN list ELSE Append(list, Head(items)),
                    Tail(items))

\* The chunks with a uri and a title, each uri once.
geminiSources(chunks) ==
    PushUnique(<<>>, SelectSeq(chunks, LAMBDA c : c.uri # "" /\ c.title # ""))

\* const allSources = [...factCheckData.sources]; then the model's citations
\* whose uri is not in it yet.
allSources(claims, chunks) ==
    PushUnique(searchFactCheckTools(claims), geminiSources(chunks))

\* The registry and the reasoning service have answered.
InitSources ==
    /\ ver = "direct"
    /\ apiKey = TRUE
    /\ op = "checkFact"
    /\ target \in {[kind |-> "answers", claims |-> c, groundingChunks |-> g] :
                     c \in UNION {[1..k -> RegistryClaims] : k \in 0..MaxItems},
                     g \in UNION {[1..k -> GroundingChunks] : k \in 0..MaxItems}}
    /\ pc = "generate"
    /\ elapsed = 0
    /\ waitResult = "none"
    /\ outcome = Pending
    /\ existingReport = "unset"
    /\ requests = {Req("generate", "text")}
    /\ nSubmit = 0
    /\ lastPoll = "none"
    /\ retriedAfter = {}
    /\ vtReport = "unset"
    /\ reply = "-"
    /\ result = NoResult
    /\ lookup = NoLookup
    /\ submitStatus = "none"
    /\ nPoll = 0
    /\ abandoned = FALSE
    /\ parsed = NoParse

\* checkFactWithGemini returns; sources: allSources.
CombineSources ==
    /\ pc = "generate"
    /\ target.kind = "answers"
    /\ result' = [shape |-> "sources",
                  sources |-> allSources(target.claims, target.groundingChunks)]
    /\ Finish(Returned)
    /\ UNCHANGED <<ver, apiKey, abandoned, nPoll, op, target, elapsed, waitResult, existingReport,
                   requests, nSubmit, lastPoll, retriedAfter, vtReport, reply, parsed,
                   lookup, submitStatus>>

SpecSources == InitSources /\ [][CombineSources]_vars

----------------------------------------------------------------------------
(* analyzeFileWithVirusTotalAndGemini / analyzeUrlWithVirusTotalAndGemini *)

\* The first statement of either operation is the await of its scan, inside
\* the try block: the operation starts as the scan does, and goes on here when
\* the scan has returned or thrown.  A report goes into the prompt and
\* generateContent is called; whatever was thrown reaches the catch block,
\* which throws the operation's own error in its place.
AfterScan(wrapper, failure) ==
    /\ pc = "done"
    /\ op' = wrapper
    /\ IF outcome.kind = "error"
       THEN /\ Finish(Failure(failure))
            /\ UNCHANGED requests
       ELSE /\ StartGenerate(target)
            /\ UNCHANGED outcome
    /\ UNCHANGED <<ver, apiKey, abandoned, nPoll, target, elapsed, waitResult, existingReport,
                   nSubmit, lastPoll, retriedAfter, analysisVars, lookup, submitStatus>>

analyzeFileWithVirusTotalAndGemini ==
    /\ op = "scanFile"
    /\ AfterScan("analyzeFile", AnalyzeFileFailure)

analyzeUrlWithVirusTotalAndGemini ==
    /\ op = "scanUrl"
    /\ AfterScan("analyzeUrl", AnalyzeUrlFailure)

----------------------------------------------------------------------------

Next ==
    \/ scanFileWithVirusTotal
    \/ calculateFileHash
    \/ scanUrlWithVirusTotal
    \/ LookupResponse
    \/ SubmitResponse
    \/ PollResponse
    \/ PollTimer
    \/ ReportResponse
    \/ analyzeScamContent
    \/ CheckResponse
    \/ analyzeDeepfakeMedia
    \/ GenerateFails
    \/ GenerateResponse

Spec == Init /\ [][Next]_vars

\* The scans as called by the reporting operations of geminiService.
NextAnalyze ==
    \/ scanFileWithVirusTotal
    \/ calculateFileHash
    \/ scanUrlWithVirusTotal
    \/ LookupResponse
    \/ SubmitResponse
    \/ PollResponse
    \/ PollTimer
    \/ ReportResponse
    \/ analyzeFileWithVirusTotalAndGemini
    \/ analyzeUrlWithVirusTotalAndGemini
    \/ GenerateFails
    \/ GenerateResponse

SpecAnalyze == Init /\ [][NextAnalyze]_vars

\* waitForAnalysis with its default arguments against the steady store.
NextWait ==
    \/ waitForAnalysis
    \/ SteadyPollResponse
    \/ SteadyPollTimer
    \/ Abandon

SpecWait == Init /\ [][NextWait]_vars

----------------------------------------------------------------------------
(* Properties *)

PollRequest == Req("GET analyses", "scanId")
WaitFinished == waitResult \in {"report", "null", "timeout"}
Max(a, b) == IF a >= b THEN a ELSE b

\* C1: a submission is made only after the scan's lookup returned null; when
\* the lookup returned a report, the scan has ended returning that report and
\* neither a submission nor a poll request was made.
C1_SubmitOnlyAfterNotFound ==
    /\ (nSubmit > 0 \/ PollRequest \in requests) => existingReport = "null"
    /\ existingReport = "report" =>
          /\ pc = "done"
          /\ outcome = Report(LookupType)
          /\ nSubmit = 0
          /\ PollRequest \notin requests
          /\ waitResult = "none"

C1_Witness ==
    /\ op \in ScanOps
    /\ existingReport = "report"
    /\ outcome.kind = "report"

\* C2 as stated: waitForAnalysis finishes no later than the wait budget, with
\* a completed report or with the timeout failure.
C2_WithinBudgetTwoWays ==
    WaitFinished =>
        /\ elapsed <= maxWaitTime
        /\ waitResult \in {"report", "timeout"}

\* C2 amended: a poll request leaves only while the elapsed time is below the
\* budget, so the call overruns the budget by less than its last iteration
\* (a request, then the poll interval or the follow-up fetch); the timeout
\* failure is never raised before the budget has elapsed; and the call ends
\* in one of three ways: report, null, timeout.
C2_BudgetAtLoopHead ==
    /\ pc = "poll" => elapsed < maxWaitTime
    /\ WaitFinished => elapsed < maxWaitTime + MaxLatency + Max(pollInterval, MaxLatency)
    /\ waitResult = "timeout" => elapsed >= maxWaitTime
    /\ (pc = "done" /\ waitResult # "none") => WaitFinished

C2_Witness ==
    /\ waitResult = "timeout"
    /\ elapsed > maxWaitTime

\* C3: when the loop is left because the budget is exhausted, and no poll saw a
\* completed analysis, waitForAnalysis fails with the timeout error; it returns
\* (a report or null) only straight after a poll that saw a positive total.
C3_TimeoutIsAnError ==
    /\ waitResult \in {"report", "null"} => lastPoll = "positive"
    /\ (WaitFinished /\ lastPoll # "positive") =>
          /\ waitResult = "timeout"
          /\ outcome = Failure(TimeoutMessage)
          /\ elapsed >= maxWaitTime

C3_Witness ==
    /\ waitResult = "timeout"
    /\ lastPoll = "processing"
    /\ outcome = Failure(TimeoutMessage)

C5_RetryOnlyWhileProcessing ==
    retriedAfter \subseteq {"processing"}

\* C6: for a denylisted URL no request is sent to the reputation store, and
\* the operation fails.
C6_DenylistedNeverSent ==
    (target.kind = "url" /\ Denylisted(target)) =>
        /\ \A r \in requests : r.ep = "generate"
        /\ pc = "done" => outcome.kind = "error"

\* C7: only the hash of a file is ever sent out; the content of a file
\* submitted for scanning is never sent.
C7_FileContentNeverSent ==
    target.kind \in {"file", "hash"} => \A r \in requests : r.payload # "content"

\* C8: in JSON mode, a reply that is not parseable JSON does not fail the
\* operation: the fully defaulted result is returned.
C8_UnparseableYieldsDefaults ==
    (/\ op \in {"scamEMAIL", "deepfake"}
     /\ pc = "done"
     /\ reply # "-"
     /\ JSONparse(reply).type = "SyntaxError") =>
        /\ outcome = Returned
        /\ result = (IF op = "scamEMAIL" THEN ThreatFromJson(Object({}, Blank))
                                         ELSE MediaFromJson(Object({}, Blank)))

C10_FailedSubmissionEndsScan ==
    /\ nSubmit <= 1
    /\ submitStatus \in {"notfound", "nonok", "neterr"} =>
          /\ pc = "done"
          /\ outcome.kind = "error"
          /\ nSubmit = 1
          /\ PollRequest \notin requests
          /\ waitResult = "none"

C10_Witness ==
    /\ submitStatus = "nonok"
    /\ outcome = Failure(SubmissionMessage)
    /\ nSubmit = 1

\* What the failed scan inside a reporting operation failed with: the wait
\* budget, the URL policy, or the reputation store (an error answer to the
\* lookup or to the submission, a report that could not be fetched).
FailureClass ==
    CASE waitResult = "timeout" -> "timeout"
      [] target.kind = "url" /\ ver = "proxy" /\ Denylisted(target) -> "policy"
      [] \/ lookup.status \in {"nonok", "neterr"}
         \/ submitStatus \in {"notfound", "nonok", "neterr"}
         \/ waitResult = "null" -> "service"
      [] OTHER -> "other"

\* What the caller can tell from the message of the error it catches.
NamedFailure(msg) ==
    CASE msg = TimeoutMessage -> "timeout"
      [] \E u \in Urls : /\ Denylisted(u)
                         /\ msg \in {"URL validation failed: " \o validateUrlForScanning(u).reason,
                                     validateUrlForScanning(u).reason} -> "policy"
      [] msg \in {"Report retrieval failed", "Upload failed", "URL submission failed",
                  "network error", "Failed to get analysis report"} -> "service"
      [] OTHER -> "unnamed"

\* C11: when a reporting operation (analyzeFileWithVirusTotalAndGemini,
\* analyzeUrlWithVirusTotalAndGemini) fails because its scan timed out, was
\* rejected by the URL policy or met a failure of the reputation store, the
\* error its caller gets names which of the three it was.
C11_FailuresAreNamed ==
    (/\ op \in WrapperOps
     /\ pc = "done"
     /\ outcome.kind = "error"
     /\ FailureClass \in {"timeout", "policy", "service"}) =>
        NamedFailure(outcome.msg) = FailureClass

\* The reputation lookup of analyzeScamContent (URL or FILE) met a network or
\* service error.
ScamLookupFailed ==
    /\ op \in {"scamURL", "scamFILE"}
    /\ lookup.by = "checkVirusTotal"
    /\ lookup.status \in {"nonok", "neterr"}

\* C12 as stated: when the reputation lookup of analyzeScamContent meets a
\* network or service error, the operation has failed and no reasoning call
\* was made.
C12_LookupErrorFailsAnalysis ==
    ScamLookupFailed =>
        /\ pc = "done"
        /\ outcome.kind = "error"
        /\ \A r \in requests : r.ep # "generate"

\* C12 amended: the error is swallowed by checkVirusTotal, which returns null
\* as it does without a key; the analysis goes on to the reasoning call with
\* the report marked unavailable, and returns the result parsed from the
\* reply.  It fails only when the reasoning call itself fails.
C12_LookupErrorDegrades ==
    ScamLookupFailed =>
        /\ vtReport = "null"
        /\ \E r \in requests : r.ep = "generate"
        /\ pc \in {"generate", "done"}
        /\ (pc = "done" /\ reply # "-") => (outcome = Returned /\ result.shape = "threat")
        /\ (pc = "done" /\ reply = "-") => outcome = Failure(ScamFailure)

C12_Witness ==
    /\ ScamLookupFailed
    /\ lookup.status = "neterr"
    /\ pc = "done"
    /\ outcome = Returned

C14_ValidationIsTotal ==
    (op = "validateUrlForScanning" /\ pc = "done") =>
        /\ outcome = Returned
        /\ result.shape = "validation"
        /\ result.valid \in BOOLEAN
        /\ ~target.wellFormed =>
              (~result.valid /\ result.reason = "Invalid URL format")
        /\ ~result.valid => result.reason # ""

C14_Witness ==
    /\ op = "validateUrlForScanning"
    /\ pc = "done"
    /\ ~target.wellFormed
    /\ target.host # <<>>
    /\ result.reason = "Invalid URL format"

\* The host of a URL string is a loopback, private-range or link-local
\* address of the list: localhost, 127.0.0.1, 0.0.0.0, 10.x, 192.168.x,
\* 172.16.x .. 172.31.x, 169.254.x, and the IPv6 addresses ::1, fc00:, fe80:.
IsPrivateHost(u) ==
    CASE u.form = "name" -> toLowerCase(u.host) = <<"l","o","c","a","l","h","o","s","t">>
      [] u.form \in {"ipv4", "ipv6"} ->
            \E range \in privateRanges : StartsWith(toLowerCase(u.host), range)
      [] OTHER -> FALSE

\* C15: every well-formed URL whose host is a listed loopback, private-range
\* or link-local address, the IPv6 ones included, is rejected with the
\* private/internal reason.
C15_PrivateHostsRejected ==
    (/\ op = "validateUrlForScanning"
     /\ pc = "done"
     /\ target.wellFormed
     /\ IsPrivateHost(target)) =>
        /\ ~result.valid
        /\ result.reason = "Private/internal IP addresses cannot be scanned"

\* The host name is the domain d or a subdomain of it.
IsDomainOrSubdomain(u, d) ==
    /\ u.form = "name"
    /\ \/ toLowerCase(u.host) = d
       \/ EndsWith(toLowerCase(u.host), <<".">> \o d)

\* C16: every well-formed URL whose host is not a private address, is neither
\* virustotal.com nor a subdomain of it, and is neither a listed platform
\* domain nor a subdomain of one, is accepted.
C16_PublicHostsAccepted ==
    (/\ op = "validateUrlForScanning"
     /\ pc = "done"
     /\ target.wellFormed
     /\ ~IsPrivateHost(target)
     /\ ~IsDomainOrSubdomain(target, virustotalDomain)
     /\ \A i \in 1..Len(restrictedDomains) :
           ~IsDomainOrSubdomain(target, restrictedDomains[i].chars)) =>
        result.valid

\* The defaults of the two result shapes.
ThreatDefaults ==
    [score |-> 50, verdict |-> "SUSPICIOUS",
     analysis |-> "### Analysis Unavailable\nCould not process the text.",
     recommendations |-> <<"Proceed with caution.">>]
MediaDefaults ==
    [verdict |-> "UNCERTAIN", confidence |-> 0,
     technicalDetails |-> "Could not process media details.",
     visualArtifacts |-> <<>>, audioArtifacts |-> <<>>]
DefaultsOf(o) == IF o = "scamEMAIL" THEN ThreatDefaults ELSE MediaDefaults
Normalized == op \in {"scamEMAIL", "deepfake"} /\ pc = "done" /\ parsed.type = "object"

\* C17 as stated: in JSON mode every field missing from the parsed object
\* takes its default, independently of the others, and every field present
\* with a value is passed through.
C17_MissingDefaultPresentThrough ==
    Normalized =>
        \A k \in DOMAIN DefaultsOf(op) :
            /\ k \in parsed.has => result[k] = parsed.val[k]
            /\ k \notin (parsed.has \cup parsed.nil) => result[k] = DefaultsOf(op)[k]

\* C17 amended: each field is settled independently of the others.  A field
\* that is missing or null takes its default; so does a verdict or a narrative
\* that is the empty string; every other present value is passed through, a
\* score or confidence of 0 and an empty list included.  An empty object
\* yields exactly the defaults.
C17_FalsyStringTakesDefault ==
    Normalized =>
        /\ \A k \in DOMAIN DefaultsOf(op) :
              result[k] = IF /\ k \in parsed.has
                             /\ ~(/\ k \in {"verdict", "analysis", "technicalDetails"}
                                  /\ parsed.val[k] = "")
                          THEN parsed.val[k]
                          ELSE DefaultsOf(op)[k]
        /\ (parsed.has = {} /\ parsed.nil = {}) =>
              result = [k \in DOMAIN DefaultsOf(op) \cup {"shape"} |->
                          IF k = "shape" THEN (IF op = "scamEMAIL" THEN "threat" ELSE "media")
                          ELSE DefaultsOf(op)[k]]

C17_Witness ==
    /\ Normalized
    /\ op = "scamEMAIL"
    /\ parsed.has = {"score", "verdict"}
    /\ parsed.val.score = 0
    /\ parsed.val.verdict = ""
    /\ result.score = 0
    /\ result.verdict = "SUSPICIOUS"
    /\ result.recommendations = <<"Proceed with caution.">>

ThreatParsed == op \in {"scamURL", "scamFILE"} \cup WrapperOps /\ pc = "done" /\ target.kind = "reply"

\* C18: in every free-text parser of a threat assessment, when the reply has
\* the `Analysis:` header the narrative is the text from after that header up
\* to the recommendations header, or to the end of the text when there is
\* none: all the sub-sections written in between.
C18_NarrativeIsWholeAnalysis ==
    (ThreatParsed /\ target.header) => result.analysis = Join(target.narrative)

\* The texts of the lines of a recommendations block that are not empty.
RECURSIVE ActionsOf(_)
ActionsOf(lines) ==
    IF lines = <<>> THEN <<>>
    ELSE (IF Head(lines).text = <<>> THEN <<>> ELSE <<Join(Head(lines).text)>>)
         \o ActionsOf(Tail(lines))

\* C19: in every free-text parser of a threat assessment the actions are the
\* lines of the recommendations block, in order, each without its leading
\* bullet mark, the empty lines dropped; without a recommendations block they
\* are exactly ["Proceed with caution."].
C19_ActionsAreBlockLines ==
    ThreatParsed =>
        result.recommendations =
            IF target.block.present /\ target.block.lines # <<>>
            THEN ActionsOf(target.block.lines)
            ELSE <<"Proceed with caution.">>

\* C20: in free-text mode the verdict is the enumerated token after
\* `Verdict:`, whatever the case of either, and the score the integer after
\* `Score:`; without a verdict line the verdict is SUSPICIOUS for a threat
\* assessment and UNCERTAIN for a fact check, without a score line the score
\* is 50.
C20_VerdictAndScoreLines ==
    (op \in ParserOps /\ pc = "done" /\ target.kind = "reply") =>
        /\ result.verdict = IF target.verdict # "" THEN target.verdict
                            ELSE IF op = "checkFact" THEN "UNCERTAIN" ELSE "SUSPICIOUS"
        /\ op # "checkFact" =>
              result.score = IF target.score # NoScore THEN target.score ELSE 50

C20_Witness ==
    /\ op = "analyzeUrl"
    /\ pc = "done"
    /\ target.kind = "reply"
    /\ target.as = "Malicious"
    /\ target.headers.verdict = "verdict:"
    /\ target.score = NoScore
    /\ result.verdict = "MALICIOUS"
    /\ result.score = 50

\* C21: whatever the reply, in free-text as in JSON mode, the score of a
\* returned threat assessment is an integer from 0 to 100.
C21_ScoreInRange ==
    (pc = "done" /\ result.shape = "threat") => result.score \in 0..100

\* The closed verdict set of each result shape.
VerdictsOf(shape) ==
    CASE shape = "threat" -> {"SAFE", "SUSPICIOUS", "MALICIOUS"}
      [] shape = "fact" -> {"TRUE", "FALSE", "UNCERTAIN"}
      [] shape = "media" -> {"LIKELY_REAL", "LIKELY_FAKE", "UNCERTAIN"}

\* C22: whatever the reply, in JSON as in free-text mode, the verdict of a
\* returned result is in the closed set of its shape.
C22_VerdictInClosedSet ==
    (pc = "done" /\ result.shape \in {"threat", "fact", "media"}) =>
        result.verdict \in VerdictsOf(result.shape)

\* Everything the two answers offer as a source, in the order it is seen:
\* the registry's reviews, then the model's citations.
Offered ==
    searchFactCheckTools(target.claims)
    \o SelectSeq([i \in 1..Len(target.groundingChunks) |->
                    [title |-> target.groundingChunks[i].title,
                     uri |-> target.groundingChunks[i].uri]],
                 LAMBDA c : c.uri # "" /\ c.title # "")

\* C23: the source list of checkFactWithGemini holds every URI at most once,
\* whatever the registry and the grounding chunks hold, repeated URIs inside
\* either list included; the entry kept for a URI is the first one seen,
\* registry sources before model citations.
C23_EveryUriOnce ==
    (pc = "done" /\ result.shape = "sources") =>
        LET sources == result.sources
        IN  /\ \A i, j \in 1..Len(sources) : sources[i].uri = sources[j].uri => i = j
            /\ \A i \in 1..Len(sources) :
                  \E k \in 1..Len(Offered) :
                     /\ Offered[k] = sources[i]
                     /\ \A n \in 1..(k - 1) : Offered[n].uri # sources[i].uri

\* C24: every report that getVirusTotalReport builds has the four count keys,
\* a key the answer omits being 0, and its total is the sum of the four.
C24_FourCountsAndTotal ==
    (pc = "done" /\ result.shape = "report") =>
        /\ CountKeys \subseteq result.analysis.has
        /\ \A k \in CountKeys \ target.stats.has : result.analysis.val[k] = 0
        /\ ~result.total.nan
        /\ result.total.n = result.analysis.val["malicious"]
                            + result.analysis.val["suspicious"]
                            + result.analysis.val["harmless"]
                            + result.analysis.val["undetected"]

\* C25: the caller can abandon waitForAnalysis at any suspension point
\* between polls; from then on no further poll request is made and no
\* next-poll timer remains scheduled.
C25_AbandonedStopsPolling ==
    [][abandoned' => (nPoll' = nPoll /\ pc' # "sleep")]_vars

\* Caller c has sent its submission.
Submitted(c) == pc[c] = "submit" \/ submitStatus[c] # "none"

\* What caller c's scan hands back, going by the answers to c's own requests.
OwnOutcome(c) ==
    CASE KeyMissing -> Failure("VirusTotal API Key is missing")
      [] lookup[c].reported = "throw" -> Failure("Report retrieval failed")
      [] lookup[c].reported = "report" -> Report(LookupType)
      [] submitStatus[c] = "neterr" -> Failure("network error")
      [] submitStatus[c] # "ok" -> Failure(SubmissionMessage)
      [] waitResult[c] = "report" -> Report("FILE")
      [] waitResult[c] = "null" -> Failure("Failed to get analysis report")
      [] OTHER -> Failure(TimeoutMessage)

\* C26: of two scans of the same resource running at the same time, each
\* submits exactly when its own lookup answered not found, the store receives
\* one submission per such caller (two when both saw not found), and each
\* scan ends with the outcome that follows from the answers to its own
\* requests, however the steps interleave.
C26_IndependentSubmissions ==
    /\ \A c \in Callers : Submitted(c) <=> lookup[c].reported = "null"
    /\ nSubmit = Cardinality({c \in Callers : Submitted(c)})
    /\ \A c \in Callers : pc[c] = "done" => outcome[c] = OwnOutcome(c)

C26_Witness ==
    /\ nSubmit = 2
    /\ \A c \in Callers : lookup[c].status = "notfound" /\ pc[c] = "done"
    /\ outcome["first"].kind = "report"
    /\ outcome["second"] = Failure(TimeoutMessage)

\* C27: in waitForAnalysis every poll request after the first leaves one full
\* poll interval after the iteration before it ended: that iteration slept
\* for the interval, also when its request or the handling of its response
\* raised an error.
C27_SleepBeforeEveryRetry ==
    [][(op \in ScanOps /\ pc' = "poll" /\ lastPoll' # "start") =>
          (pc = "sleep" /\ elapsed' >= elapsed + pollInterval)]_vars

\* C28: the report that scanUrlWithVirusTotal returns is fetched from the
\* store as a URL-kind resource (and so carries a URL-kind link), after
\* submission and polling as well as from the initial lookup.
C28_UrlReportIsUrlKind ==
    (op = "scanUrl" /\ pc = "done" /\ outcome.kind = "report") =>
        outcome.fetchedAs = "URL"

\* C29: scanFileWithVirusTotal and scanUrlWithVirusTotal end with a report or
\* with an error, never with null; when polling saw a completed analysis and
\* the follow-up report fetch answered not found, they fail with
\* "Failed to get analysis report".
C29_ScanNeverReturnsNull ==
    (op \in ScanOps /\ pc = "done") =>
        /\ outcome.kind \in {"report", "error"}
        /\ outcome.kind = "error" => outcome.msg # ""
        /\ (waitResult = "null" \/ (lastPoll = "positive" /\ lookup.status = "notfound")) =>
              outcome = Failure("Failed to get analysis report")

C29_Witness ==
    /\ op = "scanUrl"
    /\ pc = "done"
    /\ lastPoll = "positive"
    /\ lookup.by = "getVirusTotalReport"
    /\ lookup.status = "notfound"
    /\ waitResult = "null"
    /\ outcome = Failure("Failed to get analysis report")

\* C30: in checkFactWithGemini the explanation is the trimmed text after
\* `Explanation:` only when a verdict line with an enumerated token was found
\* as well; without such a line the verdict is UNCERTAIN and the explanation
\* the whole text of the reply, `Explanation:` header or not.
C30_ExplanationOnlyWithVerdict ==
    (op = "checkFact" /\ pc = "done" /\ target.kind = "reply") =>
        IF target.verdict # ""
        THEN result.explanation = IF target.header THEN Join(target.narrative) ELSE reply
        ELSE result.verdict = "UNCERTAIN" /\ result.explanation = reply

C30_Witness ==
    /\ op = "checkFact"
    /\ pc = "done"
    /\ target.kind = "reply"
    /\ target.as = "Misleading"
    /\ target.header
    /\ target.narrative = <<"Bad file">>
    /\ result.verdict = "UNCERTAIN"
    /\ result.explanation = reply
    /\ reply # "Bad file"

====
